---- MODULE Spec2Model ----
(***************************************************************************)
(* MacroKit vintage ingestion and revision engine.                         *)
(*                                                                         *)
(* Business time (observation dates, period_start) is encoded as the       *)
(* integer YYYYMMDD, which orders like the calendar.  System time          *)
(* (vintage dates, datetime.now()) is counted in days since start_date;    *)
(* a vintage day d is the timestamp Midnight(d) and a run on day d stamps  *)
(* its rows with RunTime(d), later than that day's midnight.               *)
(***************************************************************************)
EXTENDS Integers, Sequences, FiniteSets, TLC

VARIABLES
    df_all,           \* raw rows returned by get_series_all_releases, in fetch order
    series,           \* the series_id being classified
    all_vintages_df,  \* output of the last classification pass
    prev_df,          \* output of the pass before it
    added,            \* the release published since the last pass, or NoRow
    phase,            \* "fetched", "classified", "published", "reclassified"
    store,            \* table economic_indicators, rows in insertion order
    clock,            \* today, in days since start_date
    run,              \* locals of the last loop iteration of an ingest function
    obs_date,         \* an observation date handed to the period calculator
    other_date,       \* a second observation date of the same series
    obs_frequency,    \* the frequency of that series
    obs_period,       \* the period computed for obs_date, or NoPeriod
    other_period,     \* the period computed for other_date, or NoPeriod
    processor,        \* the processor class at work: economic, market or treasury
    series_info,      \* the configuration row of the series at work
    raw_data,         \* what the extractor returned for that series
    out_df,           \* the frame the processor made of it, or None
    us_table,         \* the processor's table raw.us_*, rows in insertion order
    step,             \* how far _process_series has come with that series
    upstream,         \* what the provider holds for each series of the processor
    kwargs,           \* update_only, force_full, raise_on_error of the process() call
    status,           \* of the process() call: idle, running, returned, raised
    queue,            \* the series process() has yet to take up, in config order
    outcomes,         \* the series process() has taken up, with how each ended
    before_table,     \* the table as the last _process_series call found it
    inserted_rows,    \* the rows the last _process_series call inserted
    last_processed_df, \* the attribute _last_processed_df of the processor
    prior,            \* per series, what the provider held at its last call that did not raise
    call_log,         \* what the last _process_series call did, in order
    runs              \* the locals of two process() calls at work at once

vars == <<df_all, series, all_vintages_df, prev_df, added, phase, store, clock, run,
          obs_date, other_date, obs_frequency, obs_period, other_period,
          processor, series_info, raw_data, out_df, us_table, step,
          upstream, kwargs, status, queue, outcomes, before_table, inserted_rows,
          last_processed_df, prior, call_log, runs>>
classifyVars == <<df_all, series, all_vintages_df, prev_df, added, phase>>
storeVars == <<store, clock, run>>
periodVars == <<obs_date, other_date, obs_frequency, obs_period, other_period>>
processorVars == <<processor, series_info, raw_data, out_df, us_table, step,
                   upstream, kwargs, status, queue, outcomes, before_table, inserted_rows,
                   last_processed_df, prior, call_log, runs>>
seriesVars == <<processor, series_info, raw_data, out_df, us_table, step>>
processVars == <<upstream, kwargs, status, queue, outcomes, before_table, inserted_rows,
                 last_processed_df, prior, call_log, runs>>

\* pandas None
None == [none |-> TRUE]
NoPeriod == [period |-> "none"]

\* the state of the parts a specification does not exercise
PeriodIdle ==
    /\ obs_date = 0
    /\ other_date = 0
    /\ obs_frequency = "DAILY"
    /\ obs_period = NoPeriod
    /\ other_period = NoPeriod

ProcessIdle ==
    /\ upstream = None
    /\ kwargs = None
    /\ status = "idle"
    /\ queue = <<>>
    /\ outcomes = <<>>
    /\ before_table = <<>>
    /\ inserted_rows = <<>>
    /\ last_processed_df = None
    /\ prior = None
    /\ call_log = <<>>
    /\ runs = <<>>

ProcessorIdle ==
    /\ processor = "market"
    /\ series_info = None
    /\ raw_data = None
    /\ out_df = None
    /\ us_table = <<>>
    /\ step = "idle"
    /\ ProcessIdle

-----------------------------------------------------------------------------
(* Bounds of the model *)

MaxBatch == 3      \* rows in one fetched payload
MaxVintage == 3    \* vintage days 1..MaxVintage
MaxFetch == 2      \* rows in one payload of an ingest run
MaxStore == 4      \* rows in the table
MaxClock == 2      \* days on which a run may happen
MaxRaw == 2        \* rows the extractor returns for one series
MaxTable == 4      \* rows in a processor's table
MaxPublished == 2  \* observations the provider publishes in all

-----------------------------------------------------------------------------
(* Inputs *)

\* pandas NaN / None in the value column
NaN == -1

Values == {1, 2}
RawValues == Values \cup {NaN}

\* two observation dates of 2024-Q1 and one of 2024-Q2
ObsDates == {20240101, 20240201, 20240401}

VintageDays == 1..MaxVintage

NoRow == [date |-> 0, realtime_start |-> 0, value |-> NaN]

\* get_date_range: start_date = "1800-01-01", day 0 of system time
start_date == 0

\* get_date_range: end_date is --end_date when given, else today
end_dates(today) == 1..today

Midnight(d) == 2 * d
RunTime(d) == 2 * d + 1

econ_series ==
    [s \in {"GDP", "CPIAUCSL"} |->
        IF s = "GDP"
        THEN [indicator |-> "GDP", frequency |-> "QUARTERLY"]
        ELSE [indicator |-> "CPI", frequency |-> "MONTHLY"]]

-----------------------------------------------------------------------------
(* Period calculator *)

Year(d) == d \div 10000
Month(d) == (d \div 100) % 100

\* variant: a frequency the code does not name is treated as MONTHLY
period_start_default_monthly(d, frequency) ==
    IF frequency = "QUARTERLY"
    THEN Year(d) * 10000 + (3 * ((Month(d) - 1) \div 3) + 1) * 100 + 1
    ELSE IF frequency = "DAILY"
    THEN d
    ELSE Year(d) * 10000 + Month(d) * 100 + 1

\* dt.to_period("Q").start_time / dt.to_period("M").start_time / dt.date
period_start(d, frequency) ==
    IF frequency = "QUARTERLY"
    THEN Year(d) * 10000 + (3 * ((Month(d) - 1) \div 3) + 1) * 100 + 1
    ELSE IF frequency = "MONTHLY"
    THEN Year(d) * 10000 + Month(d) * 100 + 1
    ELSE d

Day(d) == d % 100
Quarter(d) == (Month(d) - 1) \div 3 + 1
IsLeap(y) == (y % 4 = 0 /\ y % 100 # 0) \/ y % 400 = 0
DaysInMonth(y, m) ==
    IF m = 2 THEN (IF IsLeap(y) THEN 29 ELSE 28)
    ELSE IF m \in {4, 6, 9, 11} THEN 30 ELSE 31

\* variant: every month ends on its 30th day
period_end_thirty(d, frequency) ==
    IF frequency = "QUARTERLY"
    THEN Year(d) * 10000 + (3 * Quarter(d)) * 100 + 30
    ELSE IF frequency = "MONTHLY"
    THEN Year(d) * 10000 + Month(d) * 100 + 30
    ELSE d

\* dt.to_period("Q").end_time / dt.to_period("M").end_time / dt.date
period_end(d, frequency) ==
    IF frequency = "QUARTERLY"
    THEN Year(d) * 10000 + (3 * Quarter(d)) * 100 + DaysInMonth(Year(d), 3 * Quarter(d))
    ELSE IF frequency = "MONTHLY"
    THEN Year(d) * 10000 + Month(d) * 100 + DaysInMonth(Year(d), Month(d))
    ELSE d

\* variant: month and day without the leading zero
Pad2_unpadded(n) == ToString(n)

\* strftime's %m and %d: two digits
Pad2(n) == IF n < 10 THEN "0" \o ToString(n) ELSE ToString(n)

\* str(Period(freq="Q")) is "2024Q1"; strftime("%Y-%m"); strftime("%Y-%m-%d")
period_label(d, frequency) ==
    IF frequency = "QUARTERLY"
    THEN ToString(Year(d)) \o "Q" \o ToString(Quarter(d))
    ELSE IF frequency = "MONTHLY"
    THEN ToString(Year(d)) \o "-" \o Pad2(Month(d))
    ELSE ToString(Year(d)) \o "-" \o Pad2(Month(d)) \o "-" \o Pad2(Day(d))

\* the three columns period_start, period_end, period of one row
period_for(d, frequency) ==
    [period_start |-> period_start(d, frequency),
     period_end |-> period_end(d, frequency),
     period |-> period_label(d, frequency)]

-----------------------------------------------------------------------------
(* Sequence helpers *)

Range(s) == {s[i] : i \in DOMAIN s}

RECURSIVE SetToSortedSeq(_)
SetToSortedSeq(S) ==
    IF S = {} THEN <<>>
    ELSE LET m == CHOOSE x \in S : \A y \in S : x <= y
         IN <<m>> \o SetToSortedSeq(S \ {m})

RECURSIVE Flatten(_)
Flatten(ss) == IF ss = <<>> THEN <<>> ELSE Head(ss) \o Flatten(Tail(ss))

SetMax(S) == CHOOSE x \in S : \A y \in S : y <= x

-----------------------------------------------------------------------------
(* ingest_economic_indicators_with_vintages: from the payload to all_records *)

\* sorted(df_all["realtime_start"].unique()), filtered to [start_date, end_date]
vintage_dates(df, end_date) ==
    SetToSortedSeq({r.realtime_start : r \in
        {q \in Range(df) : start_date <= q.realtime_start /\ q.realtime_start <= end_date}})

\* one record of all_records
record(r, s) ==
    [indicator |-> econ_series[s].indicator,
     period_start |-> period_start(r.date, econ_series[s].frequency),
     release_date |-> r.date,
     version_date |-> Midnight(r.realtime_start),
     value |-> r.value]

\* the body of the loop over vintage_dates: the rows of one vintage, NaN dropped
vintage_records(df, vd, s) ==
    LET vintage_df == SelectSeq(df, LAMBDA r : r.realtime_start = vd /\ r.value # NaN)
    IN [i \in DOMAIN vintage_df |-> record(vintage_df[i], s)]

all_records(df, s, end_date) ==
    LET vds == vintage_dates(df, end_date)
    IN Flatten([k \in DOMAIN vds |-> vintage_records(df, vds[k], s)])

SetCol(r, col, v) == [f \in DOMAIN r \cup {col} |-> IF f = col THEN v ELSE r[f]]

\* pd.DataFrame(all_records): a fresh RangeIndex 0..n-1
DataFrame(records) == [i \in DOMAIN records |-> SetCol(records[i], "idx", i - 1)]

-----------------------------------------------------------------------------
(* The classify step *)

KeyLess(a, b) ==
    \/ a.period_start < b.period_start
    \/ a.period_start = b.period_start /\ a.version_date < b.version_date

\* a sort that reverses rows of equal key instead of keeping their order
sort_values_unstable(df) ==
    LET Before(i, j) == KeyLess(df[i], df[j]) \/ (~KeyLess(df[j], df[i]) /\ i > j)
        Rank(i) == Cardinality({j \in DOMAIN df : Before(j, i)})
    IN [k \in DOMAIN df |-> df[CHOOSE i \in DOMAIN df : Rank(i) = k - 1]]

\* sort_values(["period_start", "version_date"]): lexsort, stable, index kept
sort_values(df) ==
    LET Before(i, j) == KeyLess(df[i], df[j]) \/ (~KeyLess(df[j], df[i]) /\ i < j)
        Rank(i) == Cardinality({j \in DOMAIN df : Before(j, i)})
    IN [k \in DOMAIN df |-> df[CHOOSE i \in DOMAIN df : Rank(i) = k - 1]]

\* groupby("period_start"): keys ascending, rows of a group in frame order
group_keys(df) == SetToSortedSeq({r.period_start : r \in Range(df)})
get_group(df, p) == SelectSeq(df, LAMBDA r : r.period_start = p)

\* the label of the first row holding the minimum
idxmin(group) ==
    LET m == CHOOSE x \in {r.version_date : r \in Range(group)} :
                 \A r \in Range(group) : x <= r.version_date
        i == CHOOSE i \in DOMAIN group :
                /\ group[i].version_date = m
                /\ \A j \in DOMAIN group : j < i => group[j].version_date # m
    IN group[i].idx

\* Series.idxmax: the label of the first row holding the maximum
idxmax(group) ==
    LET m == SetMax({r.version_date : r \in Range(group)})
        i == CHOOSE i \in DOMAIN group :
                /\ group[i].version_date = m
                /\ \A j \in DOMAIN group : j < i => group[j].version_date # m
    IN group[i].idx

\* every row holding the group's maximum is flagged
mark_current_all_max(df) ==
    [k \in DOMAIN df |->
        SetCol(df[k], "is_current",
               df[k].version_date =
                   SetMax({r.version_date : r \in Range(get_group(df, df[k].period_start))}))]

\* is_current = False, then True at groupby("period_start")["version_date"].idxmax()
mark_current(df) ==
    LET keys == group_keys(df)
        latest_idx == {idxmax(get_group(df, keys[k])) : k \in DOMAIN keys}
    IN [k \in DOMAIN df |-> SetCol(df[k], "is_current", df[k].idx \in latest_idx)]

Tagged(r, is_revised, revision_type) ==
    SetCol(SetCol(r, "is_revised", is_revised), "revision_type", revision_type)

\* revision decided by the number of rows alone
mark_revisions_by_count(group) ==
    LET n == Len(group)
    IN [i \in DOMAIN group |->
           IF n = 1 THEN Tagged(group[i], FALSE, "FINAL")
           ELSE Tagged(group[i], TRUE,
                       IF i = 1 THEN "PRELIMINARY"
                       ELSE IF i = n THEN "FINAL" ELSE "REVISED")]

\* the revised branch tags from the latest row backwards
mark_revisions_reversed(group) ==
    LET n == Len(group)
        unique_values == Cardinality({r.value : r \in Range(group)})
    IN [i \in DOMAIN group |->
           IF n = 1 \/ unique_values <= 1 THEN Tagged(group[i], FALSE, "FINAL")
           ELSE Tagged(group[i], TRUE,
                       IF i = n THEN "PRELIMINARY"
                       ELSE IF i = 1 THEN "FINAL" ELSE "REVISED")]

\* the FINAL row of a revised period is left unrevised
mark_revisions_final_unrevised(group) ==
    LET n == Len(group)
        unique_values == Cardinality({r.value : r \in Range(group)})
    IN [i \in DOMAIN group |->
           IF n = 1 \/ unique_values <= 1 THEN Tagged(group[i], FALSE, "FINAL")
           ELSE Tagged(group[i], i # n,
                       IF i = 1 THEN "PRELIMINARY"
                       ELSE IF i = n THEN "FINAL" ELSE "REVISED")]

mark_revisions(group) ==
    LET n == Len(group)
        unique_values == Cardinality({r.value : r \in Range(group)})
    IN [i \in DOMAIN group |->
           IF n = 1 THEN Tagged(group[i], FALSE, "FINAL")
           ELSE IF unique_values > 1
           THEN Tagged(group[i], TRUE,
                       IF i = 1 THEN "PRELIMINARY"
                       ELSE IF i = n THEN "FINAL" ELSE "REVISED")
           ELSE Tagged(group[i], FALSE, "FINAL")]

\* groupby("period_start", group_keys=False).apply(mark_revisions)
apply_mark_revisions(df) ==
    LET keys == group_keys(df)
    IN Flatten([k \in DOMAIN keys |-> mark_revisions(get_group(df, keys[k]))])

\* sort, is_current marking, mark_revisions
classify(df) == apply_mark_revisions(mark_current(sort_values(df)))

\* the frame the function inserts for one series, <<>> when it continues early
classified_frame(df, s, end_date) ==
    LET recs == all_records(df, s, end_date)
    IN IF df = <<>> \/ recs = <<>> THEN <<>> ELSE classify(DataFrame(recs))

-----------------------------------------------------------------------------
(* Payloads of the provider *)

RawRows == [date : ObsDates, realtime_start : VintageDays, value : RawValues]

\* ALFRED holds one value per (observation date, realtime_start)
UniqueKeys(df) ==
    Cardinality({<<r.date, r.realtime_start>> : r \in Range(df)}) = Len(df)

\* the payloads of at most n rows, built row by row
RECURSIVE Payloads(_)
Payloads(n) ==
    IF n = 0 THEN {<<>>}
    ELSE LET shorter == Payloads(n - 1)
         IN shorter \cup
            {Append(df, r) : <<df, r>> \in
                {x \in shorter \X RawRows :
                    Len(x[1]) = n - 1 /\ UniqueKeys(Append(x[1], x[2]))}}

\* payloads of an ingest run: numeric values only
RunPayloads == {df \in Payloads(MaxFetch) : \A r \in Range(df) : r.value # NaN}

\* the provider has published nothing dated after day d
PublishedBy(df, d) == \A r \in Range(df) : r.realtime_start <= d

NoRun == [kind |-> "none"]

-----------------------------------------------------------------------------
(* The classify step applied to payloads *)

InitClassify ==
    /\ series \in DOMAIN econ_series
    /\ df_all \in Payloads(MaxBatch - 1)
    /\ all_vintages_df = <<>>
    /\ prev_df = <<>>
    /\ added = NoRow
    /\ phase = "fetched"
    /\ store = <<>>
    /\ clock = MaxVintage
    /\ run = NoRun
    /\ PeriodIdle
    /\ ProcessorIdle

\* one pass of lines 337-527 over the provider's current payload
ClassifyPass ==
    /\ phase \in {"fetched", "published"}
    /\ prev_df' = all_vintages_df
    /\ all_vintages_df' = classified_frame(df_all, series, clock)
    /\ phase' = "classified"
    /\ UNCHANGED <<df_all, series, added>>

\* the classify step run again on its own output
Reclassify ==
    /\ phase = "classified"
    /\ all_vintages_df # <<>>
    /\ prev_df' = all_vintages_df
    /\ all_vintages_df' = classify(all_vintages_df)
    /\ phase' = "reclassified"
    /\ added' = NoRow
    /\ UNCHANGED <<df_all, series>>

\* the provider publishes one more release of the series, a numeric value
\* dated no earlier than the releases it has published
Publish ==
    /\ phase = "classified"
    /\ added = NoRow
    /\ \E r \in RawRows :
        /\ r.value # NaN
        /\ UniqueKeys(Append(df_all, r))
        /\ \A q \in Range(df_all) : q.realtime_start <= r.realtime_start
        /\ df_all' = Append(df_all, r)
        /\ added' = r
    /\ phase' = "published"
    /\ UNCHANGED <<series, all_vintages_df, prev_df>>

NextClassify ==
    \/ ClassifyPass /\ UNCHANGED <<storeVars, periodVars, processorVars>>
    \/ Reclassify /\ UNCHANGED <<storeVars, periodVars, processorVars>>
    \/ Publish /\ UNCHANGED <<storeVars, periodVars, processorVars>>

SpecClassify == InitClassify /\ [][NextClassify]_vars

-----------------------------------------------------------------------------
(* Table economic_indicators and the three ingest loops of ingest_data_full.py *)

Schema == {"indicator", "value", "is_revised", "revision_type", "period_start",
           "release_date", "version_date", "is_current"}

\* the column list the frame is reordered to before INSERT ... SELECT * FROM df
Columns(df) == [i \in DOMAIN df |-> [f \in Schema |-> df[i][f]]]

\* fred.get_series: one (date, value) per period of the series, dates ascending
SeriesData ==
    [s \in DOMAIN econ_series |->
        {d \in UNION {[1..k -> [date : ObsDates, value : Values]] : k \in 1..MaxFetch} :
            \A i, j \in DOMAIN d : i < j =>
                /\ d[i].date < d[j].date
                /\ period_start(d[i].date, econ_series[s].frequency)
                     # period_start(d[j].date, econ_series[s].frequency)}]

\* lines 168-239: the frame built from the fetched series
current_frame(data, s, now) ==
    [i \in DOMAIN data |->
        [indicator |-> econ_series[s].indicator,
         value |-> data[i].value,
         is_revised |-> FALSE,
         revision_type |-> "FINAL",
         period_start |-> period_start(data[i].date, econ_series[s].frequency),
         release_date |-> data[i].date,
         version_date |-> now,
         is_current |-> TRUE]]

\* SELECT MAX(period_start) ... WHERE indicator = ?; 0 stands for None
max_period_start(table, indicator) ==
    LET ps == {r.period_start : r \in {q \in Range(table) : q.indicator = indicator}}
    IN IF ps = {} THEN 0 ELSE SetMax(ps)

new_data(df, last_date) == SelectSeq(df, LAMBDA r : r.period_start > last_date)
existing_dates(df, last_date) == SelectSeq(df, LAMBDA r : r.period_start <= last_date)

\* an append-only filter: rows at or below the watermark are not re-emitted
update_frame_new_only(df, last_date) == new_data(df, last_date)

\* lines 280-298: the frame inserted by an update run that found new periods
update_frame(df, last_date) ==
    LET existing == existing_dates(df, last_date)
    IN IF Len(existing) > 0
       THEN new_data(df, last_date) \o
            [i \in DOMAIN existing |->
                [existing[i] EXCEPT !.is_revised = TRUE, !.revision_type = "REVISED"]]
       ELSE new_data(df, last_date)

\* variant: the UPDATE also re-tags the stored rows as REVISED
mark_not_current_retag(table, indicator, periods) ==
    [i \in DOMAIN table |->
        IF /\ table[i].indicator = indicator
           /\ table[i].period_start \in periods
           /\ table[i].is_current
        THEN [table[i] EXCEPT !.is_current = FALSE, !.revision_type = "REVISED"]
        ELSE table[i]]

\* lines 268-278: UPDATE ... SET is_current = false for the periods re-fetched
mark_not_current(table, indicator, periods) ==
    [i \in DOMAIN table |->
        IF /\ table[i].indicator = indicator
           /\ table[i].period_start \in periods
           /\ table[i].is_current
        THEN [table[i] EXCEPT !.is_current = FALSE]
        ELSE table[i]]

RunRecord(kind, s, df, last_date, inserted, before) ==
    [kind |-> kind, series |-> s, df |-> df, last_date |-> last_date,
     inserted |-> inserted, before |-> before]

Init ==
    /\ store = <<>>
    /\ clock = 1
    /\ run = NoRun
    /\ df_all = <<>>
    /\ series = "GDP"
    /\ all_vintages_df = <<>>
    /\ prev_df = <<>>
    /\ added = NoRow
    /\ phase = "idle"
    /\ PeriodIdle
    /\ ProcessorIdle

\* one iteration of ingest_economic_indicators without --update_only
\* (or with an explicit --start_date)
IngestFull(s, data) ==
    LET df == current_frame(data, s, RunTime(clock))
    IN /\ clock <= MaxClock
       /\ Len(store) + Len(df) <= MaxStore
       /\ store' = store \o df
       /\ run' = RunRecord("full", s, df, 0, df, store)
       /\ clock' = clock + 1

\* one iteration of ingest_economic_indicators with --update_only
IngestUpdate(s, data) ==
    LET df == current_frame(data, s, RunTime(clock))
        indicator == econ_series[s].indicator
        last_date == max_period_start(store, indicator)
        existing == existing_dates(df, last_date)
        out == update_frame(df, last_date)
    IN /\ clock <= MaxClock
       /\ Len(store) + Len(df) <= MaxStore
       /\ clock' = clock + 1
       /\ IF last_date = 0
          THEN /\ store' = store \o df
               /\ run' = RunRecord("update", s, df, last_date, df, store)
          ELSE IF Len(new_data(df, last_date)) = 0
          THEN /\ store' = store
               /\ run' = RunRecord("update", s, df, last_date, <<>>, store)
          ELSE /\ store' =
                    mark_not_current(store, indicator,
                                     {r.period_start : r \in Range(existing)}) \o out
               /\ run' = RunRecord("update", s, df, last_date, out, store)

\* one iteration of ingest_economic_indicators_with_vintages
IngestVintages(s, payload, end_date) ==
    LET df == Columns(classified_frame(payload, s, end_date))
    IN /\ clock <= MaxClock
       /\ PublishedBy(payload, clock)
       /\ Len(store) + Len(df) <= MaxStore
       /\ store' = store \o df
       /\ run' = RunRecord("vintages", s, df, 0, df, store)
       /\ clock' = clock + 1

Next ==
    \/ \E s \in DOMAIN econ_series : \E data \in SeriesData[s] :
        IngestFull(s, data) /\ UNCHANGED <<classifyVars, periodVars, processorVars>>
    \/ \E s \in DOMAIN econ_series : \E data \in SeriesData[s] :
        IngestUpdate(s, data) /\ UNCHANGED <<classifyVars, periodVars, processorVars>>
    \/ \E s \in DOMAIN econ_series :
        \E payload \in RunPayloads : \E end_date \in end_dates(clock) :
            IngestVintages(s, payload, end_date) /\ UNCHANGED <<classifyVars, periodVars, processorVars>>

Spec == Init /\ [][Next]_vars

-----------------------------------------------------------------------------
(* The ingest loops when the provider or the table raises *)

\* the statement of a loop iteration that raises: the fetch from the
\* provider, or the INSERT into the table
StoreFaults == {"fetch", "insert"}

FailedRun(kind, s, df, last_date, before, fault) ==
    [kind |-> kind, series |-> s, df |-> df, last_date |-> last_date,
     inserted |-> <<>>, before |-> before, fault |-> fault]

\* one iteration of ingest_economic_indicators without --update_only in
\* which a statement raises: the except clause at 309-310 logs it, nothing
\* was written
IngestFullFails(s, data, fault) ==
    LET df == IF fault = "fetch" THEN <<>> ELSE current_frame(data, s, RunTime(clock))
    IN /\ clock <= MaxClock
       /\ store' = store
       /\ run' = FailedRun("full", s, df, 0, store, fault)
       /\ clock' = clock + 1

\* one iteration of ingest_economic_indicators with --update_only in which a
\* statement raises: when the INSERT at 306 raises, the UPDATE statements of
\* 268-278 have been executed and stay
IngestUpdateFails(s, data, fault) ==
    LET df == current_frame(data, s, RunTime(clock))
        indicator == econ_series[s].indicator
        last_date == max_period_start(store, indicator)
        existing == existing_dates(df, last_date)
    IN /\ clock <= MaxClock
       /\ clock' = clock + 1
       /\ IF fault = "fetch"
          THEN /\ store' = store
               /\ run' = FailedRun("update", s, <<>>, 0, store, fault)
          ELSE /\ last_date # 0 => Len(new_data(df, last_date)) > 0
               /\ store' =
                    IF last_date = 0 THEN store
                    ELSE mark_not_current(store, indicator,
                                          {r.period_start : r \in Range(existing)})
               /\ run' = FailedRun("update", s, df, last_date, store, fault)

\* one iteration of ingest_economic_indicators_with_vintages in which a
\* statement raises: nothing was written
IngestVintagesFails(s, payload, end_date, fault) ==
    LET df == IF fault = "fetch" THEN <<>>
              ELSE Columns(classified_frame(payload, s, end_date))
    IN /\ clock <= MaxClock
       /\ PublishedBy(payload, clock)
       /\ store' = store
       /\ run' = FailedRun("vintages", s, df, 0, store, fault)
       /\ clock' = clock + 1

NextFault ==
    \/ \E s \in DOMAIN econ_series : \E data \in SeriesData[s] :
        IngestFull(s, data) /\ UNCHANGED <<classifyVars, periodVars, processorVars>>
    \/ \E s \in DOMAIN econ_series : \E data \in SeriesData[s] :
        IngestUpdate(s, data) /\ UNCHANGED <<classifyVars, periodVars, processorVars>>
    \/ \E s \in DOMAIN econ_series :
        \E payload \in RunPayloads : \E end_date \in end_dates(clock) :
            IngestVintages(s, payload, end_date)
                /\ UNCHANGED <<classifyVars, periodVars, processorVars>>
    \/ \E s \in DOMAIN econ_series : \E data \in SeriesData[s] : \E fault \in StoreFaults :
        IngestFullFails(s, data, fault)
            /\ UNCHANGED <<classifyVars, periodVars, processorVars>>
    \/ \E s \in DOMAIN econ_series : \E data \in SeriesData[s] : \E fault \in StoreFaults :
        IngestUpdateFails(s, data, fault)
            /\ UNCHANGED <<classifyVars, periodVars, processorVars>>
    \/ \E s \in DOMAIN econ_series :
        \E payload \in RunPayloads : \E end_date \in end_dates(clock) :
            \E fault \in StoreFaults :
                IngestVintagesFails(s, payload, end_date, fault)
                    /\ UNCHANGED <<classifyVars, periodVars, processorVars>>

SpecFault == Init /\ [][NextFault]_vars

-----------------------------------------------------------------------------
(* The period calculator applied to the rows of a frame *)

\* the state of the classification step and of the table when not exercised
ClassifyIdle ==
    /\ df_all = <<>>
    /\ series = "GDP"
    /\ all_vintages_df = <<>>
    /\ prev_df = <<>>
    /\ added = NoRow
    /\ phase = "idle"

StoreIdle ==
    /\ store = <<>>
    /\ clock = 1
    /\ run = NoRun

\* the calendar the observation dates are drawn from: a century year that is
\* no leap year, one that is, a common year and a leap year
Years == {1900, 2000, 2023, 2024}
LeapYears == {2000, 2024}
MonthLengths == <<31, 28, 31, 30, 31, 30, 31, 31, 30, 31, 30, 31>>
SampleDays == {1, 15, 28, 29, 30, 31}
CalendarDates ==
    {y * 10000 + m * 100 + d : y \in Years, m \in 1..12, d \in SampleDays} \cap
    UNION {{y * 10000 + m * 100 + d :
                d \in 1..(IF m = 2 /\ y \in LeapYears THEN 29 ELSE MonthLengths[m])} :
           y \in Years, m \in 1..12}

\* series_info["frequency"]: the three the code names and one it does not
Frequencies == {"QUARTERLY", "MONTHLY", "DAILY", "WEEKLY"}

InitPeriod ==
    /\ obs_date \in CalendarDates
    /\ obs_frequency \in Frequencies
    /\ other_date = 0
    /\ obs_period = NoPeriod
    /\ other_period = NoPeriod
    /\ ClassifyIdle
    /\ StoreIdle
    /\ ProcessorIdle

\* the period columns of the row of obs_date
ComputePeriod ==
    /\ obs_period = NoPeriod
    /\ obs_period' = period_for(obs_date, obs_frequency)
    /\ UNCHANGED <<obs_date, other_date, obs_frequency, other_period>>

\* the period columns of another row of the same frame
ComputeOther ==
    /\ obs_period # NoPeriod
    /\ other_period = NoPeriod
    /\ \E d \in CalendarDates :
        /\ Year(d) = Year(obs_date)
        /\ other_date' = d
        /\ other_period' = period_for(d, obs_frequency)
    /\ UNCHANGED <<obs_date, obs_frequency, obs_period>>

NextPeriod ==
    \/ ComputePeriod /\ UNCHANGED <<classifyVars, storeVars, processorVars>>
    \/ ComputeOther /\ UNCHANGED <<classifyVars, storeVars, processorVars>>

SpecPeriod == InitPeriod /\ [][NextPeriod]_vars

-----------------------------------------------------------------------------
(* The processors of macrokit_datalake: what the extractor returns *)

Processors == {"economic", "market", "treasury"}

\* a value cell that holds text pd.to_numeric cannot read
NonNumeric == -2
\* a date cell that holds no date
NaT == 0
\* a date cell that holds text pd.to_datetime cannot read
Unparseable == -3

\* observation dates, publication dates and an expiry date of the provider
SeriesDates == {20240101, 20240201}
RealtimeStarts == {20240301, 20240401}
RealtimeEnds == {20240501}

\* the rows of the seeds CSV of a processor, in file order
series_config(p) ==
    IF p = "economic"
    THEN <<[series_id |-> "GDP", indicator |-> "GDP", frequency |-> "QUARTERLY",
            unit |-> "BILLIONS", category |-> "OUTPUT", subcategory |-> "GDP"],
           [series_id |-> "CPIAUCSL", indicator |-> "CPI", frequency |-> "MONTHLY",
            unit |-> "INDEX", category |-> "PRICES", subcategory |-> "CPI"]>>
    ELSE IF p = "market"
    THEN <<[series_id |-> "VIXCLS", indicator |-> "VIX", asset_class |-> "VOLATILITY",
            maturity |-> "NONE"],
           [series_id |-> "DTWEXBGS", indicator |-> "USD", asset_class |-> "FX",
            maturity |-> "NONE"]>>
    ELSE <<[series_id |-> "DGS10", indicator |-> "CMT", tenor |-> "10Y",
            curve_type |-> "NOMINAL"],
           [series_id |-> "GS10", indicator |-> "CMT", tenor |-> "10Y",
            curve_type |-> "NOMINAL"]>>

\* a frame or series of the extractor: its optional columns and its rows
RawData(columns, rows) == [columns |-> columns, rows |-> rows]

\* one row of get_series_all_releases, of a frame that has the given columns
RawFrameRows(columns, dates, values) ==
    [date : dates,
     realtime_start : IF "realtime_start" \in columns THEN RealtimeStarts ELSE {NaT},
     realtime_end : IF "realtime_end" \in columns THEN RealtimeEnds \cup {NaT} ELSE {NaT},
     value : values]

RECURSIVE RowSeqs(_, _)
RowSeqs(rows, n) ==
    IF n = 0 THEN {<<>>}
    ELSE LET shorter == RowSeqs(rows, n - 1)
         IN shorter \cup {Append(s, r) : s \in {q \in shorter : Len(q) = n - 1}, r \in rows}

\* what get_vintage_data can return: a frame that always has date and value
RawFrames(dates, values, n) ==
    UNION {{RawData(columns, rows) :
                rows \in RowSeqs(RawFrameRows(columns, dates, values), n)} :
           columns \in SUBSET {"realtime_start", "realtime_end"}}

\* what get_data can return: a series indexed by distinct ascending dates
RawSeries(dates, values, n) ==
    {RawData({}, rows) : rows \in
        {s \in RowSeqs(RawFrameRows({}, dates, values), n) :
            \A i, j \in DOMAIN s : i < j =>
                /\ s[i].date # s[j].date
                /\ Unparseable \notin {s[i].date, s[j].date} => s[i].date < s[j].date}}

RawInputs(p, dates, values, n) ==
    IF p = "economic" THEN RawFrames(dates, values, n) ELSE RawSeries(dates, values, n)

-----------------------------------------------------------------------------
(* The processors of macrokit_datalake: transform_data *)

\* a frame, as opposed to None
Frame(rows) == [rows |-> rows]

\* the call did not return: an exception left it
Raised == [raised |-> TRUE]

\* pd.to_datetime(column) with the default errors="raise": one cell it cannot
\* read makes the whole call raise
to_datetime_raises(rows) == \E r \in Range(rows) : r.date = Unparseable

\* pd.to_numeric(errors="coerce")
to_numeric(v) == IF v = NonNumeric THEN NaN ELSE v

\* df.sort_values(by): rows in ascending order of the columns by, ties in frame order
StableSort(rows, by) ==
    LET Less(a, b) == \E k \in DOMAIN by :
                          /\ \A m \in 1..(k - 1) : a[by[m]] = b[by[m]]
                          /\ a[by[k]] < b[by[k]]
        Ahead(j, i) == \/ Less(rows[j], rows[i])
                       \/ (~Less(rows[i], rows[j]) /\ j < i)
        Rank(i) == Cardinality({j \in DOMAIN rows : Ahead(j, i)})
    IN [k \in DOMAIN rows |-> rows[CHOOSE i \in DOMAIN rows : Rank(i) = k - 1]]

\* economic.py 67-71: realtime_start, or the observation date when the
\* column is missing
realtime_start_of(columns, r) ==
    IF "realtime_start" \in columns THEN r.realtime_start ELSE r.date

\* variant: realtime_end is taken from the raw row whenever the column exists
realtime_end_as_given(columns, r) ==
    IF "realtime_end" \notin columns
    THEN realtime_start_of(columns, r)
    ELSE r.realtime_end

\* economic.py 73-79: realtime_end, or realtime_start when the column is
\* missing or the cell is null
realtime_end_of(columns, r) ==
    IF "realtime_end" \notin columns
    THEN realtime_start_of(columns, r)
    ELSE IF r.realtime_end = NaT
    THEN realtime_start_of(columns, r)
    ELSE r.realtime_end

\* EconomicProcessor.transform_data
economic_transform_data(raw, info, now) ==
    LET row(r) ==
            [series_id |-> info.series_id,
             category |-> info.category,
             subcategory |-> info.subcategory,
             observation_date |-> r.date,
             value |-> to_numeric(r.value),
             realtime_start |-> realtime_start_of(raw.columns, r),
             realtime_end |-> realtime_end_of(raw.columns, r),
             indicator |-> info.indicator,
             unit |-> info.unit,
             frequency |-> info.frequency,
             loaded_at |-> now,
             source |-> "FRED"]
        all == [i \in DOMAIN raw.rows |-> row(raw.rows[i])]
        kept == SelectSeq(all, LAMBDA r : r.value # NaN)
    IN IF Len(raw.rows) = 0 THEN None
       ELSE IF to_datetime_raises(raw.rows) THEN Raised
       ELSE IF kept = <<>> THEN None
       ELSE Frame(StableSort(kept, <<"observation_date", "realtime_start">>))

\* MarketProcessor.transform_data
market_transform_data(raw, info, now) ==
    LET row(r) ==
            [date |-> r.date,
             value |-> to_numeric(r.value),
             series_id |-> info.series_id,
             indicator |-> info.indicator,
             asset_class |-> info.asset_class,
             maturity |-> info.maturity,
             loaded_at |-> now,
             source |-> "FRED"]
        all == [i \in DOMAIN raw.rows |-> row(raw.rows[i])]
        kept == SelectSeq(all, LAMBDA r : r.value # NaN)
    IN IF Len(raw.rows) = 0 THEN None
       ELSE IF to_datetime_raises(raw.rows) THEN Raised
       ELSE Frame(StableSort(kept, <<"date">>))

\* df["yield"] / 100.0: percent to decimal; NaN stays NaN
percent_to_decimal(v) == IF v = NaN THEN NaN ELSE v \div 100

\* TreasuryYieldProcessor.transform_data: the dropna is commented out
treasury_transform_data(raw, info, now) ==
    LET row(r) ==
            [date |-> r.date,
             yield |-> percent_to_decimal(to_numeric(r.value)),
             series_id |-> info.series_id,
             tenor |-> info.tenor,
             curve_type |-> info.curve_type,
             indicator |-> info.indicator,
             bid |-> "None",
             ask |-> "None",
             loaded_at |-> now,
             source |-> "FRED"]
        all == [i \in DOMAIN raw.rows |-> row(raw.rows[i])]
    \* sort_values(["date", "tenor"]): tenor is the same in every row of the frame
    IN IF Len(raw.rows) = 0 THEN None
       ELSE IF to_datetime_raises(raw.rows) THEN Raised
       ELSE Frame(StableSort(all, <<"date">>))

transform_data(p, raw, info, now) ==
    IF p = "economic" THEN economic_transform_data(raw, info, now)
    ELSE IF p = "market" THEN market_transform_data(raw, info, now)
    ELSE treasury_transform_data(raw, info, now)

\* BaseProcessor._insert_data: INSERT INTO table VALUES (rows of df)
insert_data(table, rows) == table \o rows

\* the value column of a processor's rows
value_of(p, r) == IF p = "treasury" THEN r.yield ELSE r.value

-----------------------------------------------------------------------------
(* _process_series of one series in full mode, step by step *)

\* raw value cells: a number, a missing value, unreadable text
TransformValues == {100, NaN, NonNumeric}
\* raw date cells: a date, unreadable text
TransformDates == SeriesDates \cup {Unparseable}

\* variant: a frame of zero rows counts as data
NonEmpty_zero_rows(frame) == IF frame = None THEN FALSE ELSE Len(frame.rows) >= 0

\* variant: only None counts as no data
NonEmpty_not_none(frame) == frame # None

\* base.py 116: not (df is None or len(df) == 0)
NonEmpty(frame) == IF frame = None THEN FALSE ELSE Len(frame.rows) > 0

InitTransform ==
    /\ processor \in Processors
    /\ series_info \in Range(series_config(processor))
    /\ raw_data \in RawInputs(processor, TransformDates, TransformValues, MaxRaw)
    /\ out_df = None
    /\ us_table = <<>>
    /\ step = "extracted"
    /\ ProcessIdle
    /\ ClassifyIdle
    /\ StoreIdle
    /\ PeriodIdle

\* base.py 114-115: df = self.transform_data(raw_data, series_info, ...)
TransformData ==
    /\ step = "extracted"
    /\ Len(raw_data.rows) > 0
    /\ LET frame == transform_data(processor, raw_data, series_info, RunTime(clock))
       IN IF frame = Raised
          THEN out_df' = out_df /\ step' = "raised"
          ELSE out_df' = frame /\ step' = "transformed"
    /\ UNCHANGED <<processor, series_info, raw_data, us_table, processVars>>

\* base.py 109-111 and 116-118: nothing extracted, or nothing transformed
SkipSeries ==
    /\ \/ step = "extracted" /\ Len(raw_data.rows) = 0
       \/ step = "transformed" /\ ~NonEmpty(out_df)
    /\ step' = "skipped"
    /\ UNCHANGED <<processor, series_info, raw_data, out_df, us_table, processVars>>

\* base.py 129-130: self._insert_data(df)
InsertData ==
    /\ step = "transformed"
    /\ NonEmpty(out_df)
    /\ us_table' = insert_data(us_table, out_df.rows)
    /\ step' = "inserted"
    /\ UNCHANGED <<processor, series_info, raw_data, out_df, processVars>>

NextTransform ==
    \/ TransformData /\ UNCHANGED <<classifyVars, storeVars, periodVars>>
    \/ SkipSeries /\ UNCHANGED <<classifyVars, storeVars, periodVars>>
    \/ InsertData /\ UNCHANGED <<classifyVars, storeVars, periodVars>>

SpecTransform == InitTransform /\ [][NextTransform]_vars

-----------------------------------------------------------------------------
(* BaseProcessor.process and _process_series, with the subclasses' overrides *)

\* SELECT MAX(date) FROM table WHERE ...; 0 stands for None
max_date(matching) ==
    LET dates == {q.date : q \in matching}
    IN IF dates = {} THEN 0 ELSE SetMax(dates)

\* MarketProcessor._filter_for_updates: the watermark of the series_id
market_filter_for_updates(table, rows) ==
    IF Len(rows) = 0 THEN rows
    ELSE LET series_id == rows[1].series_id
             last_date == max_date({q \in Range(table) : q.series_id = series_id})
         IN IF last_date # 0
            THEN SelectSeq(rows, LAMBDA r : r.date > last_date)
            ELSE rows

\* TreasuryYieldProcessor._filter_for_updates: the watermark of tenor and curve_type
treasury_filter_for_updates(table, rows) ==
    IF Len(rows) = 0 THEN rows
    ELSE LET tenor == rows[1].tenor
             curve_type == rows[1].curve_type
             last_date == max_date({q \in Range(table) :
                                       q.tenor = tenor /\ q.curve_type = curve_type})
         IN IF last_date # 0
            THEN SelectSeq(rows, LAMBDA r : r.date > last_date)
            ELSE rows

\* BaseProcessor._filter_for_updates, which EconomicProcessor inherits
base_filter_for_updates(table, rows) == rows

filter_for_updates(p, table, rows) ==
    IF p = "market" THEN market_filter_for_updates(table, rows)
    ELSE IF p = "treasury" THEN treasury_filter_for_updates(table, rows)
    ELSE base_filter_for_updates(table, rows)

\* variant: the filter is applied whenever update_only is set
use_filter_update_only(update_only, force_full) == update_only

\* base.py 122: update_only and not kwargs.get("force_full", False)
use_filter(update_only, force_full) == update_only /\ ~force_full

\* where a call of _process_series can raise; extract_none: the extractor
\* raises nothing and returns None
Faults == {"none", "extract", "extract_none", "transform", "filter", "insert"}

\* an entry of the record of what a call did: the operation and the frame
\* it was given
Did(op, rows) == [op |-> op, rows |-> rows]

\* one call of _process_series: how it ended, the frame transform_data made,
\* the rows it inserted, the table after it, _last_processed_df after it, and
\* what it did in order; the subclass's override logs the statistics of
\* _last_processed_df when the base method has returned
process_series(p, table, raw, info, kw, fault, now, last_df) ==
    LET frame == transform_data(p, raw, info, now)
        filtering == use_filter(kw.update_only, kw.force_full)
        rows == IF filtering
                THEN filter_for_updates(p, table, frame.rows)
                ELSE frame.rows
        extracted == <<Did("extract", <<>>)>>
        transformed == Append(extracted, Did("transform", <<>>))
        filtered == IF filtering
                    THEN Append(transformed, Did("filter", frame.rows))
                    ELSE transformed
        stats(kept_df) == IF kept_df = None THEN <<>> ELSE <<Did("stats", kept_df.rows)>>
        End(result, made, new_rows, kept_df, done) ==
            [result |-> result, df |-> made, inserted |-> new_rows,
             table |-> insert_data(table, new_rows), last_df |-> kept_df,
             log |-> IF result = "error" THEN done ELSE done \o stats(kept_df)]
    IN IF fault = "extract" THEN End("error", None, <<>>, last_df, extracted)
       ELSE IF fault = "extract_none" \/ Len(raw.rows) = 0
       THEN End("no_data", None, <<>>, last_df, extracted)
       ELSE IF fault = "transform" \/ frame = Raised
       THEN End("error", None, <<>>, last_df, transformed)
       ELSE IF ~NonEmpty(frame) THEN End("no_transformed", frame, <<>>, last_df, transformed)
       ELSE IF filtering /\ fault = "filter" THEN End("error", frame, <<>>, last_df, filtered)
       ELSE IF filtering /\ Len(rows) = 0 THEN End("no_new", frame, <<>>, last_df, filtered)
       ELSE IF fault = "insert"
       THEN End("error", frame, <<>>, Frame(rows), Append(filtered, Did("insert", rows)))
       ELSE End("inserted", frame, rows, Frame(rows), Append(filtered, Did("insert", rows)))

\* variant: an exception always leaves the loop
after_exception_raise(raise_on_error) == "raised"

\* variant: an exception never leaves the loop
after_exception_continue(raise_on_error) == "running"

\* base.py 98-101: log, and re-raise when raise_on_error is set
after_exception(raise_on_error) == IF raise_on_error THEN "raised" ELSE "running"

\* what the interpreter exits with after app.run(main): main and process()
\* have no return statement, so sys.exit(None) gives 0 however the series
\* ended; an exception that leaves the loop gives 1
exit_status(st) == IF st = "raised" THEN 1 ELSE 0

\* raw value cells of the provider: a number, a missing value
ProcessValues == {100, NaN}

\* the optional columns of what the processor's extractor call returns
raw_columns(p) == IF p = "economic" THEN {"realtime_start"} ELSE {}

series_ids(p) == {series_config(p)[i].series_id : i \in DOMAIN series_config(p)}

InitProcess ==
    /\ processor \in Processors
    /\ upstream = [s \in series_ids(processor) |-> RawData(raw_columns(processor), <<>>)]
    /\ series_info = None
    /\ raw_data = None
    /\ out_df = None
    /\ us_table = <<>>
    /\ step = "idle"
    /\ kwargs = None
    /\ status = "idle"
    /\ queue = <<>>
    /\ outcomes = <<>>
    /\ before_table = <<>>
    /\ inserted_rows = <<>>
    /\ last_processed_df = None
    /\ prior = [s \in series_ids(processor) |-> None]
    /\ call_log = <<>>
    /\ runs = <<>>
    /\ ClassifyIdle
    /\ StoreIdle
    /\ PeriodIdle

\* the number of observations the provider holds for the series in S
RECURSIVE published(_, _)
published(up, S) ==
    IF S = {} THEN 0
    ELSE LET x == CHOOSE x \in S : TRUE
         IN Len(up[x].rows) + published(up, S \ {x})

\* the provider publishes one more observation of a series: a later date, or
\* for a series with vintages a release no older than those it has published
ProviderPublish(s, r) ==
    /\ status # "running"
    /\ Len(upstream[s].rows) < MaxRaw
    /\ published(upstream, DOMAIN upstream) < MaxPublished
    /\ \A q \in Range(upstream[s].rows) :
        IF processor = "economic"
        THEN /\ q.realtime_start <= r.realtime_start
             /\ <<q.date, q.realtime_start>> # <<r.date, r.realtime_start>>
        ELSE q.date < r.date
    /\ upstream' = [upstream EXCEPT ![s].rows = Append(@, r)]
    /\ UNCHANGED <<seriesVars, kwargs, status, queue, outcomes, before_table,
                   inserted_rows, last_processed_df, prior, call_log, runs, clock>>

\* base.py 87-91: process(start_date, end_date, update_only, **kwargs) is called
StartProcess(update_only, force_full, raise_on_error) ==
    /\ status # "running"
    /\ clock <= MaxClock
    /\ kwargs' = [update_only |-> update_only, force_full |-> force_full,
                  raise_on_error |-> raise_on_error]
    /\ queue' = series_config(processor)
    /\ outcomes' = <<>>
    /\ status' = "running"
    /\ series_info' = None
    /\ raw_data' = None
    /\ out_df' = None
    /\ step' = "idle"
    /\ before_table' = us_table
    /\ inserted_rows' = <<>>
    /\ call_log' = <<>>
    /\ UNCHANGED <<processor, us_table, upstream, last_processed_df, prior, runs, clock>>

\* base.py 93-101: one iteration of the loop over series_config
ProcessSeries(fault) ==
    /\ status = "running"
    /\ queue # <<>>
    /\ LET info == Head(queue)
           raw == IF fault = "extract_none" THEN None ELSE upstream[info.series_id]
           res == process_series(processor, us_table, upstream[info.series_id], info, kwargs, fault,
                                 RunTime(clock), last_processed_df)
           this == [raw |-> upstream[info.series_id],
                    filtered |-> use_filter(kwargs.update_only, kwargs.force_full)]
           next_status ==
               IF res.result = "error" /\ after_exception(kwargs.raise_on_error) = "raised"
               THEN "raised"
               ELSE IF Tail(queue) = <<>> THEN "returned" ELSE "running"
       IN /\ Len(res.table) <= MaxTable
          /\ series_info' = info
          /\ raw_data' = raw
          /\ out_df' = res.df
          /\ us_table' = res.table
          /\ step' = res.result
          /\ before_table' = us_table
          /\ inserted_rows' = res.inserted
          /\ last_processed_df' = res.last_df
          /\ call_log' = res.log
          /\ outcomes' = Append(outcomes,
                                [series_id |-> info.series_id, result |-> res.result,
                                 rerun |-> prior[info.series_id] = this])
          /\ prior' = IF res.result = "error" THEN prior
                      ELSE [prior EXCEPT ![info.series_id] = this]
          /\ queue' = Tail(queue)
          /\ status' = next_status
          /\ clock' = IF next_status = "running" THEN clock ELSE clock + 1
    /\ UNCHANGED <<processor, upstream, kwargs, runs>>

NextProcess ==
    \/ \E s \in DOMAIN upstream :
        \E r \in RawFrameRows(raw_columns(processor), SeriesDates, ProcessValues) :
            ProviderPublish(s, r) /\ UNCHANGED <<classifyVars, store, run, periodVars>>
    \/ \E update_only, force_full, raise_on_error \in BOOLEAN :
        StartProcess(update_only, force_full, raise_on_error)
            /\ UNCHANGED <<classifyVars, store, run, periodVars>>
    \/ \E fault \in Faults :
        ProcessSeries(fault) /\ UNCHANGED <<classifyVars, store, run, periodVars>>

SpecProcess == InitProcess /\ [][NextProcess]_vars

-----------------------------------------------------------------------------
(* Two update-only process() calls at work on one series at the same time *)

\* the processors whose filter reads a watermark from the table
WatermarkProcessors == {"market", "treasury"}

RunIds == {1, 2}

\* the locals of a _process_series call: where it is, the frame it
\* transformed, the rows its filter kept, and the number of rows the table
\* held when its filter read the watermark
NewRun == [pc |-> "start", raw |-> None, df |-> None, rows |-> <<>>, seen |-> 0]

InitConcurrent ==
    /\ processor \in WatermarkProcessors
    /\ series_info \in Range(series_config(processor))
    /\ raw_data \in RawSeries(SeriesDates, ProcessValues, MaxRaw)
    /\ us_table = <<>>
    /\ kwargs = [update_only |-> TRUE, force_full |-> FALSE, raise_on_error |-> FALSE]
    /\ runs = [i \in RunIds |-> NewRun]
    /\ out_df = None
    /\ step = "idle"
    /\ upstream = None
    /\ status = "idle"
    /\ queue = <<>>
    /\ outcomes = <<>>
    /\ before_table = <<>>
    /\ inserted_rows = <<>>
    /\ last_processed_df = None
    /\ prior = None
    /\ call_log = <<>>
    /\ ClassifyIdle
    /\ StoreIdle
    /\ PeriodIdle

\* base.py 106-111: raw_data = self._extract_data(...), return when empty
Extract(i) ==
    /\ runs[i].pc = "start"
    /\ runs' = [runs EXCEPT ![i].raw = raw_data,
                            ![i].pc = IF Len(raw_data.rows) = 0 THEN "done" ELSE "extracted"]
    /\ UNCHANGED us_table

\* base.py 114-118: df = self.transform_data(...), return when empty
Transform(i) ==
    /\ runs[i].pc = "extracted"
    /\ LET frame == transform_data(processor, runs[i].raw, series_info, RunTime(clock))
       IN runs' = [runs EXCEPT ![i].df = frame,
                               ![i].pc = IF NonEmpty(frame) THEN "transformed" ELSE "done"]
    /\ UNCHANGED us_table

\* base.py 122-126: df = self._filter_for_updates(df, series_info), whose
\* SELECT MAX(date) reads the table as it is now; return when nothing is left
Filter(i) ==
    /\ runs[i].pc = "transformed"
    /\ LET rows == IF use_filter(kwargs.update_only, kwargs.force_full)
                   THEN filter_for_updates(processor, us_table, runs[i].df.rows)
                   ELSE runs[i].df.rows
       IN runs' = [runs EXCEPT ![i].rows = rows,
                               ![i].seen = Len(us_table),
                               ![i].pc = IF Len(rows) = 0 THEN "done" ELSE "filtered"]
    /\ UNCHANGED us_table

\* base.py 129-130: self._insert_data(df)
Insert(i) ==
    /\ runs[i].pc = "filtered"
    /\ us_table' = insert_data(us_table, runs[i].rows)
    /\ runs' = [runs EXCEPT ![i].pc = "done"]

concurrentFixed == <<processor, series_info, raw_data, out_df, step, upstream, kwargs,
                     status, queue, outcomes, before_table, inserted_rows,
                     last_processed_df, prior, call_log>>

NextConcurrent ==
    \/ \E i \in RunIds :
        Extract(i) /\ UNCHANGED <<classifyVars, storeVars, periodVars, concurrentFixed>>
    \/ \E i \in RunIds :
        Transform(i) /\ UNCHANGED <<classifyVars, storeVars, periodVars, concurrentFixed>>
    \/ \E i \in RunIds :
        Filter(i) /\ UNCHANGED <<classifyVars, storeVars, periodVars, concurrentFixed>>
    \/ \E i \in RunIds :
        Insert(i) /\ UNCHANGED <<classifyVars, storeVars, periodVars, concurrentFixed>>

SpecConcurrent == InitConcurrent /\ [][NextConcurrent]_vars

-----------------------------------------------------------------------------
(* Properties of the classify step (SpecClassify) *)

Periods(df) == {r.period_start : r \in Range(df)}
MaxVersion(group) == SetMax({r.version_date : r \in Range(group)})
DistinctValues(group) == Cardinality({r.value : r \in Range(group)})
CurrentRows(group) == {i \in DOMAIN group : group[i].is_current}
SortedByVintage(group) ==
    \A i, j \in DOMAIN group : i < j => group[i].version_date <= group[j].version_date

\* C2: in the output of a classification pass every period_start group has
\* exactly one row with is_current = true, and that row's version_date is the
\* maximum version_date of the group.
C2_OneCurrentAtMaxVintage ==
    \A p \in Periods(all_vintages_df) :
        LET g == get_group(all_vintages_df, p)
        IN /\ Cardinality(CurrentRows(g)) = 1
           /\ \A i \in CurrentRows(g) : g[i].version_date = MaxVersion(g)

\* a classified period in which two rows share the maximum version_date
C2_Witness ==
    /\ phase = "classified"
    /\ \E p \in Periods(all_vintages_df) :
        LET g == get_group(all_vintages_df, p)
        IN Cardinality({i \in DOMAIN g : g[i].version_date = MaxVersion(g)}) >= 2

\* C3: a period with at least two vintages and at least two distinct values
\* has its rows in ascending vintage order, the first tagged PRELIMINARY, the
\* last FINAL and every row in between REVISED.
C3_RevisedPeriodTags ==
    \A p \in Periods(all_vintages_df) :
        LET g == get_group(all_vintages_df, p)
            n == Len(g)
        IN (n >= 2 /\ DistinctValues(g) >= 2) =>
            /\ SortedByVintage(g)
            /\ g[1].revision_type = "PRELIMINARY"
            /\ g[n].revision_type = "FINAL"
            /\ \A i \in DOMAIN g : (1 < i /\ i < n) => g[i].revision_type = "REVISED"
            /\ Cardinality({i \in DOMAIN g : g[i].revision_type = "PRELIMINARY"}) = 1
            /\ Cardinality({i \in DOMAIN g : g[i].revision_type = "FINAL"}) = 1

\* a classified period of three vintages on three different days, values differing
C3_Witness ==
    /\ phase = "classified"
    /\ \E p \in Periods(all_vintages_df) :
        LET g == get_group(all_vintages_df, p)
        IN /\ Len(g) = 3
           /\ DistinctValues(g) = 2
           /\ g[1].version_date < g[2].version_date
           /\ g[2].version_date < g[3].version_date

\* C4: a period whose vintages carry one distinct value has every row FINAL
\* with is_revised = false, and is_current on exactly one row, one of the
\* latest version_date.
C4_UnrevisedPeriodAllFinal ==
    \A p \in Periods(all_vintages_df) :
        LET g == get_group(all_vintages_df, p)
        IN DistinctValues(g) = 1 =>
            /\ \A i \in DOMAIN g :
                /\ g[i].revision_type = "FINAL"
                /\ g[i].is_revised = FALSE
                /\ g[i].is_current => g[i].version_date = MaxVersion(g)
            /\ Cardinality(CurrentRows(g)) = 1

\* a classified period of three vintages of one value beside a single-vintage period
C4_Witness ==
    /\ phase = "classified"
    /\ \E p \in Periods(all_vintages_df) :
        LET g == get_group(all_vintages_df, p)
        IN /\ Len(g) >= 2
           /\ DistinctValues(g) = 1
           /\ g[1].version_date < g[Len(g)].version_date

\* C5: a classified row has is_revised = true exactly when its period has at
\* least two vintages with at least two distinct values, so all rows of a
\* period carry the same is_revised, the FINAL row included.
C5_IsRevisedIffValuesDiffer ==
    \A p \in Periods(all_vintages_df) :
        LET g == get_group(all_vintages_df, p)
        IN \A i \in DOMAIN g :
            /\ g[i].is_revised = (Len(g) >= 2 /\ DistinctValues(g) >= 2)
            /\ g[i].is_revised = g[1].is_revised

\* a classified batch holding a revised period and an unrevised one
C5_Witness ==
    /\ phase = "classified"
    /\ \E r \in Range(all_vintages_df) : r.is_revised /\ r.revision_type = "FINAL"
    /\ \E r \in Range(all_vintages_df) : ~r.is_revised

\* C6: within each period group, sorted by vintage date ascending with ties
\* in fetch order, is_current is set on the last element and on no other.
C6_CurrentOnLastOfGroup ==
    \A p \in Periods(all_vintages_df) :
        LET g == get_group(all_vintages_df, p)
        IN /\ SortedByVintage(g)
           /\ \A i \in DOMAIN g : g[i].is_current = (i = Len(g))

\* C7: the classify step run on its own output leaves is_current, is_revised
\* and revision_type of every row as they were.
C7_ClassifyIdempotent ==
    phase = "reclassified" =>
        /\ {r.idx : r \in Range(all_vintages_df)} = {r.idx : r \in Range(prev_df)}
        /\ \A r \in Range(all_vintages_df) : \A q \in Range(prev_df) :
            r.idx = q.idx =>
                /\ r.is_current = q.is_current
                /\ r.is_revised = q.is_revised
                /\ r.revision_type = q.revision_type

\* a reclassified batch with a revised period whose rows tie on (period, vintage)
C7_Witness ==
    /\ phase = "reclassified"
    /\ \E i, j \in DOMAIN all_vintages_df :
        /\ i < j
        /\ all_vintages_df[i].period_start = all_vintages_df[j].period_start
        /\ all_vintages_df[i].version_date = all_vintages_df[j].version_date
        /\ all_vintages_df[i].value # all_vintages_df[j].value

\* the row of a frame with the key of q, or the set of its tags
SameRow(r, q) == r.release_date = q.release_date /\ r.version_date = q.version_date

\* a release with a later vintage date was added to a period that had prior
\* vintages, and the period has been classified again
LaterVintageAdded ==
    /\ phase = "classified"
    /\ added # NoRow
    /\ added.value # NaN
    /\ added.realtime_start <= clock
    /\ LET p == period_start(added.date, econ_series[series].frequency)
           g == get_group(prev_df, p)
       IN /\ g # <<>>
          /\ \A i \in DOMAIN g : g[i].version_date < Midnight(added.realtime_start)

AddedPeriod == period_start(added.date, econ_series[series].frequency)

\* prior FINAL becomes REVISED, the new row is FINAL and current, PRELIMINARY stays
Monotone ==
    LET old == get_group(prev_df, AddedPeriod)
        new == get_group(all_vintages_df, AddedPeriod)
    IN /\ \A i \in DOMAIN old : \A j \in DOMAIN new : SameRow(old[i], new[j]) =>
            /\ old[i].revision_type = "FINAL" => new[j].revision_type = "REVISED"
            /\ old[i].revision_type = "PRELIMINARY" => new[j].revision_type = "PRELIMINARY"
       /\ \A i \in DOMAIN old : \E j \in DOMAIN new : SameRow(old[i], new[j])
       /\ \E j \in DOMAIN new :
            /\ new[j].release_date = added.date
            /\ new[j].version_date = Midnight(added.realtime_start)
            /\ new[j].revision_type = "FINAL"
            /\ new[j].is_current

\* C8 as stated: whenever a later vintage is added to a period with N prior
\* vintages and the period is re-classified, the prior FINAL row becomes
\* REVISED, the new row FINAL and current, and PRELIMINARY is unchanged.
C8_MonotoneAnyPeriod == LaterVintageAdded => Monotone

\* C8 as amended: the same, for a period whose prior vintages already carried
\* at least two distinct values (so that it had a PRELIMINARY and a FINAL row).
C8_MonotoneRevisedPeriod ==
    (LaterVintageAdded /\ DistinctValues(get_group(prev_df, AddedPeriod)) >= 2) => Monotone

\* a later vintage added to a period that was PRELIMINARY, FINAL before
C8_Witness ==
    /\ LaterVintageAdded
    /\ DistinctValues(get_group(prev_df, AddedPeriod)) >= 2
    /\ Len(get_group(all_vintages_df, AddedPeriod)) = 3

-----------------------------------------------------------------------------
(* Properties of the table after ingestion runs (Spec) *)

SamePeriod(r, q) == r.indicator = q.indicator /\ r.period_start = q.period_start

\* C1: after any sequence of ingestion runs the table holds, for every
\* (series, period_start), at most one row with is_current = true, and that
\* row has the maximum version_date among the stored rows of the period.
C1_OneCurrentPerStoredPeriod ==
    \A i \in DOMAIN store :
        LET rows == {j \in DOMAIN store : SamePeriod(store[j], store[i])}
            current == {j \in rows : store[j].is_current}
        IN /\ Cardinality(current) <= 1
           /\ \A j \in current : \A k \in rows :
                store[k].version_date <= store[j].version_date

\* the fetched row r carries a value its period does not have in the table
Changed(r, table) ==
    /\ \E q \in Range(table) : SamePeriod(q, r)
    /\ \A q \in Range(table) : SamePeriod(q, r) => q.value # r.value

\* the row r of the fetched frame was inserted by the run and is in the table
Persisted(r) ==
    /\ \E q \in Range(run.inserted) :
        /\ SamePeriod(q, r)
        /\ q.value = r.value
        /\ q.version_date = r.version_date
    /\ \E q \in Range(store) :
        /\ SamePeriod(q, r)
        /\ q.value = r.value
        /\ q.version_date = r.version_date

UpdateRun == run.kind = "update" /\ run.last_date # 0

\* an update run whose batch revises the watermark period and brings a later one
ScenarioD ==
    /\ UpdateRun
    /\ run.last_date = max_period_start(run.before, econ_series[run.series].indicator)
    /\ \E r \in Range(run.df) : r.period_start = run.last_date /\ Changed(r, run.before)
    /\ \E r \in Range(run.df) : r.period_start > run.last_date

\* C9: in update-only mode with the watermark at the latest stored
\* period_start, a batch with a revised value for the watermark period and an
\* observation of a later period has the rows of both periods persisted.
C9_RevisedAndNewBothPersisted ==
    ScenarioD => \A r \in Range(run.df) : Persisted(r)

\* an update run in the situation of scenario D that inserted two rows
C9_Witness == ScenarioD /\ Len(run.inserted) = 2

\* C10: in update-only mode every fetched row with a changed value for a
\* period at or below the watermark is persisted by the run, also when the
\* batch holds no period newer than the watermark.
C10_ChangedPeriodReEmitted ==
    UpdateRun =>
        \A r \in Range(run.df) :
            (r.period_start <= run.last_date /\ Changed(r, run.before)) => Persisted(r)

\* the rows the last run found in the table, as they are now
StoredNow(i) == store[i]
StoredBefore(i) == run.before[i]

\* C13 as stated: no run changes a field of, or deletes, a row that an
\* earlier run persisted.
C13_AppendOnly ==
    run # NoRun =>
        /\ Len(store) >= Len(run.before)
        /\ \A i \in DOMAIN run.before : StoredNow(i) = StoredBefore(i)

\* C13 as amended: no run deletes a stored row or changes a field of it other
\* than is_current, and is_current only ever changes from true to false.
C13_OnlyCurrentFlagCleared ==
    run # NoRun =>
        /\ Len(store) >= Len(run.before)
        /\ \A i \in DOMAIN run.before :
            /\ [StoredNow(i) EXCEPT !.is_current = FALSE] =
                   [StoredBefore(i) EXCEPT !.is_current = FALSE]
            /\ StoredNow(i).is_current => StoredBefore(i).is_current

\* an update-only run cleared is_current of a stored row and appended rows
C13_Witness ==
    /\ run # NoRun
    /\ run.kind = "update"
    /\ Len(store) > Len(run.before)
    /\ \E i \in DOMAIN run.before : StoredBefore(i).is_current /\ ~StoredNow(i).is_current

\* the period of r is in the table and has only the value r carries
Unchanged(r, table) ==
    /\ \E q \in Range(table) : SamePeriod(q, r)
    /\ \A q \in Range(table) : SamePeriod(q, r) => q.value = r.value

\* C26: an update-only run inserts a row of a period at or below the
\* watermark only if its value differs from what the table holds for that
\* period: a fetched row of a stored period with an unchanged value is not
\* inserted again.
C26_UnchangedNotReinserted ==
    UpdateRun =>
        \A r \in Range(run.inserted) :
            r.period_start <= run.last_date => ~Unchanged(r, run.before)

\* the rows of a table that belong to a series
RowsOf(table, s) == SelectSeq(table, LAMBDA r : r.indicator = econ_series[s].indicator)

\* C24: when a statement of the run of a series raises, the rows of that
\* series in the table are exactly what they were before the run; no stored
\* row has lost is_current.
C24_FailedRunLeavesRows ==
    "fault" \in DOMAIN run => RowsOf(store, run.series) = RowsOf(run.before, run.series)

\* every current row of the frame is FINAL, and the FINAL row of a revised
\* period is current
CurrentIsFinal(df) ==
    \A i \in DOMAIN df :
        /\ df[i].is_current => df[i].revision_type = "FINAL"
        /\ (df[i].is_revised /\ df[i].revision_type = "FINAL") => df[i].is_current

\* C28: after any sequence of full, vintage and update-only runs, every row
\* of the table with is_current = true has revision_type FINAL, and in a
\* revised period the row tagged FINAL is the row with is_current = true.
C28_CurrentRowIsFinal == CurrentIsFinal(store)

-----------------------------------------------------------------------------
(* Properties of normalization (SpecTransform) *)

\* a raw row carries no numeric value
Missing(q) == q.value \in {NaN, NonNumeric}

\* C14: for every processor, a raw row whose value is missing or non-numeric
\* never appears among the rows inserted into the table: every inserted row
\* carries a number.
C14_NoMissingValueInserted ==
    \A i \in DOMAIN us_table : value_of(processor, us_table[i]) # NaN

\* the raw row a normalized economic row was made from
MadeFrom(r, q) ==
    /\ r.observation_date = q.date
    /\ r.realtime_start = realtime_start_of(raw_data.columns, q)
    /\ r.value = q.value

\* C15: a normalized economic row has realtime_end equal to its own
\* realtime_start when the raw row has no realtime_end (column absent or cell
\* null), and the raw realtime_end otherwise.
C15_RealtimeEndDefault ==
    (processor = "economic" /\ out_df # None) =>
        /\ \A i \in DOMAIN out_df.rows :
            LET r == out_df.rows[i]
            IN \E q \in Range(raw_data.rows) :
                /\ MadeFrom(r, q)
                /\ r.realtime_end =
                     IF "realtime_end" \in raw_data.columns /\ q.realtime_end # NaT
                     THEN q.realtime_end
                     ELSE r.realtime_start
        /\ \A q \in Range(raw_data.rows) :
            ~Missing(q) =>
                \E i \in DOMAIN out_df.rows :
                    /\ MadeFrom(out_df.rows[i], q)
                    /\ out_df.rows[i].realtime_end \in {q.realtime_end, out_df.rows[i].realtime_start}

\* a frame with a realtime_end column, one cell null and one cell a date
C15_Witness ==
    /\ processor = "economic"
    /\ out_df # None
    /\ "realtime_end" \in raw_data.columns
    /\ \E q \in Range(raw_data.rows) : q.realtime_end = NaT /\ ~Missing(q)
    /\ \E i \in DOMAIN out_df.rows :
        out_df.rows[i].realtime_end # out_df.rows[i].realtime_start

\* a raw row with a readable date and a numeric value
Valid(q) == q.date # Unparseable /\ ~Missing(q)

\* the raw row a normalized row was made from, by date and value
RowOf(p, r, q) ==
    /\ (IF p = "economic" THEN r.observation_date ELSE r.date) = q.date
    /\ value_of(p, r) = IF p = "treasury" THEN percent_to_decimal(q.value) ELSE q.value

\* C22: when the raw data of a series of the economic or the market
\* processor holds a row with an unreadable date or a non-numeric value and
\* _process_series has ended, the series has not failed, every valid raw row
\* is in the table and no invalid one is.
C22_BadRowDroppedAlone ==
    (/\ processor \in {"economic", "market"}
     /\ step \in {"skipped", "inserted", "raised"}
     /\ \E q \in Range(raw_data.rows) : ~Valid(q)) =>
        /\ step # "raised"
        /\ \A q \in Range(raw_data.rows) :
            Valid(q) <=> \E i \in DOMAIN us_table : RowOf(processor, us_table[i], q)

-----------------------------------------------------------------------------
(* Properties of the period calculator (SpecPeriod) *)

\* the calendar, stated apart from the calculator
QuarterMonths == {{1, 2, 3}, {4, 5, 6}, {7, 8, 9}, {10, 11, 12}}
InSameMonth(d, e) == Year(d) = Year(e) /\ Month(d) = Month(e)
InSameQuarter(d, e) ==
    Year(d) = Year(e) /\ \E Q \in QuarterMonths : Month(d) \in Q /\ Month(e) \in Q
\* the dates that share the period of d under a frequency
InSamePeriod(d, e, f) ==
    IF f = "QUARTERLY" THEN InSameQuarter(d, e)
    ELSE IF f = "MONTHLY" THEN InSameMonth(d, e)
    ELSE d = e

\* C16: for every date d and frequency f, period_start <= d <= period_end;
\* for QUARTERLY (MONTHLY) the bounds are calendar dates that enclose exactly
\* the dates of d's calendar quarter (month), and two dates of the same
\* quarter (month) get identical bounds.
C16_PeriodBoundsDate ==
    /\ obs_period # NoPeriod =>
        /\ obs_period.period_start <= obs_date
        /\ obs_date <= obs_period.period_end
        /\ obs_period.period_start \in CalendarDates
        /\ obs_period.period_end \in CalendarDates
        /\ obs_frequency \in {"QUARTERLY", "MONTHLY"} =>
            \A e \in CalendarDates :
                InSamePeriod(obs_date, e, obs_frequency) <=>
                    (obs_period.period_start <= e /\ e <= obs_period.period_end)
    /\ (other_period # NoPeriod /\ InSamePeriod(obs_date, other_date, obs_frequency)) =>
        /\ other_period.period_start = obs_period.period_start
        /\ other_period.period_end = obs_period.period_end

\* two dates in different months of one quarter of a QUARTERLY series
C16_Witness ==
    /\ other_period # NoPeriod
    /\ obs_frequency = "QUARTERLY"
    /\ InSameQuarter(obs_date, other_date)
    /\ Month(obs_date) # Month(other_date)
    /\ obs_period.period_end > obs_date
    /\ Month(obs_period.period_end) = 6

\* C17: a frequency other than QUARTERLY, MONTHLY, DAILY yields exactly the
\* DAILY result: period_start = period_end = the date, and the daily label.
C17_UnrecognizedIsDaily ==
    (obs_period # NoPeriod /\ obs_frequency \notin {"QUARTERLY", "MONTHLY", "DAILY"}) =>
        /\ obs_period.period_start = obs_date
        /\ obs_period.period_end = obs_date
        /\ obs_period = period_for(obs_date, "DAILY")

\* a WEEKLY series, on a date that is no start of a month
C17_Witness ==
    /\ obs_period # NoPeriod
    /\ obs_frequency = "WEEKLY"
    /\ Day(obs_date) = 15

\* the quarter number of a date, read off the calendar
QuarterNumber(d) ==
    CHOOSE n \in 1..4 : Month(d) \in {3 * n - 2, 3 * n - 1, 3 * n}

\* "YYYY-MM" and "YYYY-MM-DD" of a date, digit by digit
Digit(n) == ToString(n % 10)
YYYY(d) == Digit(Year(d) \div 1000) \o Digit(Year(d) \div 100)
             \o Digit(Year(d) \div 10) \o Digit(Year(d))
MM(d) == Digit(Month(d) \div 10) \o Digit(Month(d))
DD(d) == Digit(Day(d) \div 10) \o Digit(Day(d))
MonthlyOrDailyLabel(d, f) ==
    IF f = "MONTHLY" THEN YYYY(d) \o "-" \o MM(d)
    ELSE YYYY(d) \o "-" \o MM(d) \o "-" \o DD(d)

\* C18 as stated: the label is "YYYY-Qn" for QUARTERLY, "YYYY-MM" for MONTHLY
\* and "YYYY-MM-DD" for DAILY and unrecognized frequencies.
C18_LabelHyphenQuarter ==
    obs_period # NoPeriod =>
        obs_period.period =
            IF obs_frequency = "QUARTERLY"
            THEN YYYY(obs_date) \o "-Q" \o Digit(QuarterNumber(obs_date))
            ELSE MonthlyOrDailyLabel(obs_date, obs_frequency)

\* C18 as amended: the QUARTERLY label is "YYYYQn", year and quarter number
\* with no hyphen between them; the other labels are as stated.
C18_LabelPandasQuarter ==
    obs_period # NoPeriod =>
        obs_period.period =
            IF obs_frequency = "QUARTERLY"
            THEN YYYY(obs_date) \o "Q" \o Digit(QuarterNumber(obs_date))
            ELSE MonthlyOrDailyLabel(obs_date, obs_frequency)

\* the label of a date in the third quarter of 2024 of a QUARTERLY series
C18_Witness ==
    /\ obs_period # NoPeriod
    /\ obs_frequency = "QUARTERLY"
    /\ obs_date = 20240815
    /\ obs_period.period = "2024Q3"

-----------------------------------------------------------------------------
(* Properties of process() and _process_series (SpecProcess) *)

Last(s) == s[Len(s)]
SeriesIds(s) == [i \in DOMAIN s |-> s[i].series_id]

\* the series, observation date and vintage date of a stored row
RowKey(p, r) ==
    IF p = "economic" THEN <<r.series_id, r.observation_date, r.realtime_start>>
    ELSE <<r.series_id, r.date>>

\* C11: for every processor, an update-only run of a series that finds the
\* upstream data its previous update-only run found inserts no rows, and the
\* table holds no two rows with the same series, observation date and vintage.
C11_ReingestInsertsNothing ==
    (outcomes # <<>> /\ status # "idle" /\ step # "error" /\ Last(outcomes).rerun
        /\ use_filter(kwargs.update_only, kwargs.force_full)) =>
        /\ inserted_rows = <<>>
        /\ \A i, j \in DOMAIN us_table :
            (i # j /\ us_table[i].series_id = series_info.series_id) =>
                RowKey(processor, us_table[i]) # RowKey(processor, us_table[j])

\* a series failed in the run: its _process_series call raised
Failed(outcome) == outcome.result = "error"

\* C21: when a run that does not stop at the first error has ended, its exit
\* status is non-zero if at least one series failed and zero only if every
\* series succeeded.
C21_ExitStatusReflectsFailure ==
    (kwargs # None /\ ~kwargs.raise_on_error /\ status = "returned") =>
        (exit_status(status) # 0 <=> \E i \in DOMAIN outcomes : Failed(outcomes[i]))

\* the operations the last _process_series call did
Ops == [i \in DOMAIN call_log |-> call_log[i].op]
Count(op) == Cardinality({i \in DOMAIN call_log : call_log[i].op = op})

\* nothing was extracted, or nothing was left after transformation
NothingToInsert ==
    \/ raw_data = None
    \/ Len(raw_data.rows) = 0
    \/ out_df = None
    \/ Len(out_df.rows) = 0

\* C27: when the extractor returns None or nothing, or transform_data
\* returns None or a frame of zero rows, the call raises nothing, runs no
\* filter and no insert, leaves the table as it was, and process() goes on
\* with the next series.
C27_EmptySeriesSkipped ==
    (status # "idle" /\ step \notin {"idle", "error"} /\ NothingToInsert) =>
        /\ step \in {"no_data", "no_transformed"}
        /\ Count("filter") = 0
        /\ Count("insert") = 0
        /\ us_table = before_table
        /\ inserted_rows = <<>>
        /\ status = IF queue = <<>> THEN "returned" ELSE "running"

\* a series with nothing extracted and one with nothing left after its
\* only row was dropped were skipped, and the run went on to its end
C27_Witness ==
    /\ status = "returned"
    /\ Len(outcomes) = 2
    /\ outcomes[1].result = "no_data"
    /\ outcomes[2].result = "no_transformed"
    /\ Len(raw_data.rows) > 0
    /\ Count("filter") = 0
    /\ Count("insert") = 0

\* C29: a call of _process_series runs _insert_data at most once, after
\* extract, transform and, when the filter applies, the filter, and never
\* with zero rows; a run takes up no series twice.
C29_InsertOnceAfterPipeline ==
    status # "idle" =>
        /\ Count("insert") <= 1
        /\ \A i \in DOMAIN call_log :
            call_log[i].op = "insert" =>
                /\ SubSeq(Ops, 1, i - 1) =
                     IF use_filter(kwargs.update_only, kwargs.force_full)
                     THEN <<"extract", "transform", "filter">>
                     ELSE <<"extract", "transform">>
                /\ Len(call_log[i].rows) > 0
        /\ \A i, j \in DOMAIN outcomes :
            i # j => outcomes[i].series_id # outcomes[j].series_id

\* an update-only call ran the filter and then inserted what was left of a
\* frame the filter had shortened
C29_Witness ==
    /\ step = "inserted"
    /\ kwargs.update_only
    /\ ~kwargs.force_full
    /\ Ops = <<"extract", "transform", "filter", "insert", "stats">>
    /\ Len(inserted_rows) > 0
    /\ Len(inserted_rows) < Len(out_df.rows)

\* C30: the statistics a call of _process_series logs are those of the
\* batch that call inserted; a call that skips its series logs none.
C30_StatsOfThisSeries ==
    status # "idle" =>
        \A i \in DOMAIN call_log :
            call_log[i].op = "stats" =>
                /\ step = "inserted"
                /\ call_log[i].rows = inserted_rows

\* C23: between the watermark read of a run's filter and that run's insert
\* no other run inserts into the table, and the table never holds one
\* observation of a series twice.
C23_NoInsertBetweenReadAndInsert ==
    /\ \A i \in DOMAIN runs :
        runs[i].pc = "filtered" => runs[i].seen = Len(us_table)
    /\ \A i, j \in DOMAIN us_table :
        i # j => RowKey(processor, us_table[i]) # RowKey(processor, us_table[j])

\* the latest date the table held for the series at work before the call;
\* 0 when it held none
OwnWatermark ==
    LET dates == {q.date : q \in {r \in Range(before_table) :
                                     r.series_id = series_info.series_id}}
    IN IF dates = {} THEN 0 ELSE SetMax(dates)

\* C25: an update-only call of a processor that filters by a watermark
\* inserts every transformed row later than the latest stored date of its
\* own series_id: rows stored for another series suppress nothing.
C25_WatermarkOfOwnSeries ==
    (/\ status # "idle"
     /\ processor \in WatermarkProcessors
     /\ step \in {"no_new", "inserted"}
     /\ use_filter(kwargs.update_only, kwargs.force_full)) =>
        inserted_rows = SelectSeq(out_df.rows, LAMBDA r : r.date > OwnWatermark)

\* C12: with force_full set the filter is not applied, also when update_only
\* is set: every row transform_data made is passed to the insert, whatever
\* the table holds.
C12_ForceFullBypassesFilter ==
    (kwargs # None /\ step # "idle" /\ kwargs.force_full) =>
        /\ step # "no_new"
        /\ NonEmpty(out_df) => step \in {"inserted", "error"}
        /\ step = "inserted" =>
            /\ inserted_rows = out_df.rows
            /\ us_table = before_table \o out_df.rows

\* update_only and force_full, and a row at the series' watermark was inserted
C12_Witness ==
    /\ kwargs # None
    /\ kwargs.update_only
    /\ kwargs.force_full
    /\ step = "inserted"
    /\ processor = "market"
    /\ \E i \in DOMAIN inserted_rows : \E j \in DOMAIN before_table :
        /\ before_table[j].series_id = inserted_rows[i].series_id
        /\ inserted_rows[i].date <= before_table[j].date

\* C19: without raise_on_error, process() takes up every configured series
\* exactly once in configuration order; an exception in one series is caught
\* and the remaining series are still processed.
C19_EverySeriesAttemptedOnce ==
    (kwargs # None /\ ~kwargs.raise_on_error) =>
        /\ status \in {"running", "returned"}
        /\ SeriesIds(outcomes) \o SeriesIds(queue) = SeriesIds(series_config(processor))
        /\ status = "returned" => queue = <<>>
        /\ status = "running" => queue # <<>>

\* the first series raised and the second was processed and inserted
C19_Witness ==
    /\ kwargs # None
    /\ ~kwargs.raise_on_error
    /\ status = "returned"
    /\ outcomes[1].result = "error"
    /\ outcomes[2].result = "inserted"

\* C20: with raise_on_error, the first exception leaves process(): no later
\* series is taken up in that run, and the rows inserted for earlier series
\* remain in the table.
C20_FailFastStops ==
    (kwargs # None /\ kwargs.raise_on_error) =>
        /\ \A i \in DOMAIN outcomes :
            outcomes[i].result = "error" => (status = "raised" /\ i = Len(outcomes))
        /\ status = "raised" =>
            /\ outcomes # <<>>
            /\ Last(outcomes).result = "error"
            /\ SeriesIds(outcomes) \o SeriesIds(queue) = SeriesIds(series_config(processor))
            /\ us_table = before_table
        /\ \A i \in DOMAIN outcomes :
            (i < Len(outcomes) /\ outcomes[i].result = "inserted") =>
                \E j \in DOMAIN us_table : us_table[j].series_id = outcomes[i].series_id

\* the first series raised while the provider held data for the second
C20_Witness ==
    /\ kwargs # None
    /\ kwargs.raise_on_error
    /\ status = "raised"
    /\ queue # <<>>
    /\ upstream[Head(queue).series_id].rows # <<>>
    /\ \A j \in DOMAIN us_table : us_table[j].series_id # Head(queue).series_id

=============================================================================
